---- MODULE Spec2Model ----
(***************************************************************************)
(* Model of RestaurantManager (src/qualifier/qualifier.py): the staff      *)
(* registry, the speciality index, the busy set and the order relay.       *)
(*                                                                         *)
(* One coroutine of __call__ runs per event.  A staff.onduty or            *)
(* staff.offduty event has no await and is one atomic step.  An order is   *)
(* atomic from line 53 up to its first await (line 69), and then advances  *)
(* one awaited channel operation at a time; other events interleave at     *)
(* these four suspension points.                                           *)
(***************************************************************************)
EXTENDS Integers, Sequences, FiniteSets, TLC

\* ---------------------------------------------------------------- bounds
MaxOrders == 2
\* staff.onduty events of a run, when orders and worker events interleave freely
MaxOnduty == 2
\* staff.onduty events of a run, when the staff is set up before the orders
MaxSeqOnduty == 3

Workers  == {"w1", "w2"}
Caps     == {"a"}
Payloads == {"p1"}
Results  == {"r1"}

Orders == 1..MaxOrders

\* ------------------------------------------------- python values, markers
Missing == "<missing>"      \* an order's scope has no "speciality" key
Unbound == "<unbound>"      \* local variable sta was never assigned
Unset   == "<unset>"        \* local variable full_order / result not yet assigned

\* found = None (line 53)
NoneReq == [id |-> 0, speciality |-> {}]

\* A staff.onduty Request object: id is the object's identity (the n-th
\* onduty event of the run), speciality is scope["speciality"].
Request(n, caps) == [id |-> n, speciality |-> caps]

VARIABLES
    staff,       \* self.staff: dict in insertion order, a sequence of [key, value]
    special,     \* self.special: dict speciality -> set of staff ids
    busy,        \* self.busy: set of staff ids
    nreq,        \* number of staff.onduty Request objects created so far
    lastError,   \* exception raised by the last staff.onduty / staff.offduty event
    pc,          \* per order: position of its coroutine
    ospec,       \* per order: _scope["speciality"] (or Missing)
    sta,         \* per order: local variable sta
    found,       \* per order: local variable found
    full_order,  \* per order: local variable full_order
    result,      \* per order: local variable result
    err,         \* per order: the exception that ended the coroutine
    log          \* per order: the channel operations it completed, in order

vars == <<staff, special, busy, nreq, lastError,
          pc, ospec, sta, found, full_order, result, err, log>>

registry == <<staff, special, nreq, lastError>>
locals   == <<ospec, sta, found, full_order, result>>

\* ------------------------------------------- dict self.staff, as a sequence
RECURSIVE IndexOf(_, _, _)
IndexOf(d, k, i) ==
    IF i > Len(d) THEN 0
    ELSE IF d[i].key = k THEN i ELSE IndexOf(d, k, i + 1)

Keys(d)   == [i \in 1..Len(d) |-> d[i].key]
KeySet(d) == {d[i].key : i \in 1..Len(d)}
Has(d, k) == IndexOf(d, k, 1) # 0
Get(d, k) == d[IndexOf(d, k, 1)].value

\* d[k] = v: an existing key keeps its position, a new key goes last
Put(d, k, v) ==
    IF Has(d, k) THEN [d EXCEPT ![IndexOf(d, k, 1)].value = v]
    ELSE Append(d, [key |-> k, value |-> v])

\* d.pop(k), for a key that is present
Pop(d, k) ==
    LET j == IndexOf(d, k, 1)
    IN  [i \in 1..(Len(d) - 1) |-> IF i < j THEN d[i] ELSE d[i + 1]]

\* iteration orders of a python set: any order the hash seed can produce
Perms(S) ==
    {p \in [1..Cardinality(S) -> S] : \A i, j \in 1..Cardinality(S) : p[i] = p[j] => i = j}

\* ------------------------------------------------ staff.onduty, lines 40-43
\* for spe in _scope["speciality"]: self.special[spe] = self.special.get(spe, set()) | {id}
\* (the list is modelled by the set of its elements: the loop's effect does
\* not depend on order or repetition)
AddSpecialSkip(sp, id, caps) == sp

AddSpecial(sp, id, caps) ==
    [c \in (DOMAIN sp) \cup caps |->
        IF c \in caps
        THEN (IF c \in DOMAIN sp THEN sp[c] ELSE {}) \cup {id}
        ELSE sp[c]]

\* ----------------------------------------------- staff.offduty, lines 47-49
RemoveSpecialKeep(sp, id) == sp

\* for spe, sta in self.special.items(): if id in sta: sta.remove(id)
RemoveSpecial(sp, id) == [c \in DOMAIN sp |-> sp[c] \ {id}]

\* ------------------------------------------------------ order, lines 53-68
\* The locals of an order while it selects: sta, found, and the exception
\* raised by self.staff[sta], if any.
Locals(s, f, e) == [sta |-> s, found |-> f, err |-> e]

\* self.staff[sta] inside a scan (lines 59, 65)
Lookup(stf, id, loc) ==
    IF Has(stf, id) THEN Locals(id, Get(stf, id), "")
    ELSE Locals(id, loc.found, "KeyError")

RECURSIVE ScanFrom(_, _, _, _, _)
ScanFromIgnoreBusy(seq, i, stf, bsy, loc) ==
    IF i > Len(seq) THEN loc ELSE Lookup(stf, seq[i], loc)

\* for sta in seq: if sta not in self.busy: found = self.staff[sta]; break
\* An exhausted loop leaves sta bound to the last element it saw, an empty
\* one leaves sta as it was.
ScanFrom(seq, i, stf, bsy, loc) ==
    IF i > Len(seq) THEN loc
    ELSE IF seq[i] \notin bsy THEN Lookup(stf, seq[i], loc)
    ELSE ScanFrom(seq, i + 1, stf, bsy, [loc EXCEPT !.sta = seq[i]])

\* lines 54-60: the scan of self.special[speciality], iterated in the order perm
SpecialScan(sp, stf, bsy, spe, perm, loc) ==
    IF spe \in DOMAIN sp THEN ScanFrom(perm, 1, stf, bsy, loc) ELSE loc

StaffScanSkipped(stf, bsy, loc) == loc

\* a fallback scan with a loop variable of its own: sta keeps the candidate
\* the speciality scan saw last
StaffScanKeepSta(stf, bsy, loc) ==
    IF loc.err = "" /\ loc.found = NoneReq
    THEN LET r == ScanFrom(Keys(stf), 1, stf, bsy, loc)
         IN  [r EXCEPT !.sta = IF loc.sta = Unbound THEN r.sta ELSE loc.sta]
    ELSE loc

\* lines 62-66: if not found: scan self.staff.keys() in dict order
StaffScan(stf, bsy, loc) ==
    IF loc.err = "" /\ loc.found = NoneReq
    THEN ScanFrom(Keys(stf), 1, stf, bsy, loc)
    ELSE loc

\* lines 53-66
Select(sp, stf, bsy, spe, perm) ==
    StaffScan(stf, bsy, SpecialScan(sp, stf, bsy, spe, perm, Locals(Unbound, NoneReq, "")))

\* the iteration orders of self.special[spe] (none to choose when the key is absent)
ScanOrders(sp, spe) == IF spe \in DOMAIN sp THEN Perms(sp[spe]) ELSE {<<>>}

ReleaseNot(bsy, s) == bsy

\* line 75: self.busy.remove(sta), for an id that is present
Release(bsy, s) == bsy \ {s}

\* a completed channel operation: op on the Request object with identity on
\* (0 is the order's own request) of the worker who ("" for the order's own
\* request), carrying val
Call(op, on, who, val) == [op |-> op, on |-> on, who |-> who, val |-> val]

\* ------------------------------------------------------------------ Init
\* lines 22-24, before any event
Init ==
    /\ staff = <<>>
    /\ special = <<>>
    /\ busy = {}
    /\ nreq = 0
    /\ lastError = ""
    /\ pc = [o \in Orders |-> "new"]
    /\ ospec = [o \in Orders |-> Missing]
    /\ sta = [o \in Orders |-> Unbound]
    /\ found = [o \in Orders |-> NoneReq]
    /\ full_order = [o \in Orders |-> Unset]
    /\ result = [o \in Orders |-> Unset]
    /\ err = [o \in Orders |-> ""]
    /\ log = [o \in Orders |-> <<>>]

\* --------------------------------------------------------- worker events
\* a registration that also clears the busy mark of its id
StaffOnDutyFresh(id, caps, limit) ==
    /\ nreq < limit
    /\ nreq' = nreq + 1
    /\ staff' = Put(staff, id, Request(nreq + 1, caps))
    /\ special' = AddSpecial(special, id, caps)
    /\ lastError' = ""
    /\ busy' = busy \ {id}
    /\ UNCHANGED <<pc, locals, err, log>>

\* lines 38-43, for a scope that carries its list of specialities; at most
\* limit such events are taken in a run.  (A scope without the key, as in
\* src/tests.py, stores the request at line 39 and raises KeyError at line 40;
\* the events taken here always carry the list.)
StaffOnDuty(id, caps, limit) ==
    /\ nreq < limit
    /\ nreq' = nreq + 1
    /\ staff' = Put(staff, id, Request(nreq + 1, caps))
    /\ special' = AddSpecial(special, id, caps)
    /\ lastError' = ""
    /\ UNCHANGED <<busy, pc, locals, err, log>>

\* a deregistration that is refused while its id is busy
OffDutyRefuseBusy(id) ==
    /\ IF id \in busy
       THEN /\ lastError' = "WorkerBusy"
            /\ UNCHANGED <<staff, special>>
       ELSE /\ special' = RemoveSpecial(special, id)
            /\ IF Has(staff, id)
               THEN staff' = Pop(staff, id) /\ lastError' = ""
               ELSE staff' = staff /\ lastError' = "KeyError"
    /\ UNCHANGED <<busy, nreq, pc, locals, err, log>>

\* a deregistration that also clears the busy mark of its id
OffDutyReleasing(id) ==
    /\ special' = RemoveSpecial(special, id)
    /\ IF Has(staff, id)
       THEN staff' = Pop(staff, id) /\ lastError' = ""
       ELSE staff' = staff /\ lastError' = "KeyError"
    /\ busy' = busy \ {id}
    /\ UNCHANGED <<nreq, pc, locals, err, log>>

\* self.staff.pop(id, None): an unregistered id passes silently
OffDutyQuiet(id) ==
    /\ special' = RemoveSpecial(special, id)
    /\ staff' = IF Has(staff, id) THEN Pop(staff, id) ELSE staff
    /\ lastError' = ""
    /\ UNCHANGED <<busy, nreq, pc, locals, err, log>>

\* lines 46-50.  The index is scanned first; self.staff.pop raises KeyError
\* for an id that is not registered.
OffDuty(id) ==
    /\ special' = RemoveSpecial(special, id)
    /\ IF Has(staff, id)
       THEN staff' = Pop(staff, id) /\ lastError' = ""
       ELSE staff' = staff /\ lastError' = "KeyError"
    /\ UNCHANGED <<busy, nreq, pc, locals, err, log>>

OnDuty(id, caps) == StaffOnDuty(id, caps, MaxOnduty)

\* ----------------------------------------------------------------- order
\* the coroutine of order o ends and its frame, with its locals, is gone
Return(o) ==
    /\ sta' = [sta EXCEPT ![o] = Unbound]
    /\ found' = [found EXCEPT ![o] = NoneReq]
    /\ full_order' = [full_order EXCEPT ![o] = Unset]
    /\ result' = [result EXCEPT ![o] = Unset]

\* the coroutine of order o ends with the exception e
Fail(o, e) ==
    /\ pc' = [pc EXCEPT ![o] = "failed"]
    /\ err' = [err EXCEPT ![o] = e]
    /\ Return(o)

\* an order is taken up only when all earlier ones have ended
NextOrderSerial(o) ==
    pc[o] = "new" /\ \A q \in Orders : q < o => pc[q] \in {"done", "failed"}

\* orders are numbered in arrival order
NextOrder(o) == pc[o] = "new" /\ \A q \in Orders : q < o => pc[q] # "new"

\* lines 52-69, up to the suspension in request.receive()
OrderArrive(o, spe) ==
    /\ NextOrder(o)
    /\ ospec' = [ospec EXCEPT ![o] = spe]
    /\ UNCHANGED <<registry, log>>
    /\ IF spe = Missing
       THEN \* line 54: _scope["speciality"] raises KeyError
            Fail(o, "KeyError") /\ UNCHANGED busy
       ELSE \E perm \in ScanOrders(special, spe) :
            LET loc == Select(special, staff, busy, spe, perm) IN
            IF loc.err # ""
            THEN Fail(o, loc.err) /\ UNCHANGED busy
            ELSE IF loc.sta = Unbound
            THEN \* line 68: sta was never assigned
                 Fail(o, "UnboundLocalError") /\ UNCHANGED busy
            ELSE /\ busy' = busy \cup {loc.sta}
                 /\ sta' = [sta EXCEPT ![o] = loc.sta]
                 /\ found' = [found EXCEPT ![o] = loc.found]
                 /\ pc' = [pc EXCEPT ![o] = "receive"]
                 /\ UNCHANGED <<full_order, result, err>>

\* line 69 returns p; line 70 then evaluates found.send, which raises
\* AttributeError when found is None
PullDone(o, p) ==
    /\ pc[o] = "receive"
    /\ log' = [log EXCEPT ![o] = Append(@, Call("request.receive", 0, "", p))]
    /\ IF found[o] = NoneReq
       THEN Fail(o, "AttributeError")
       ELSE /\ full_order' = [full_order EXCEPT ![o] = p]
            /\ pc' = [pc EXCEPT ![o] = "send"]
            /\ UNCHANGED <<sta, found, result, err>>
    /\ UNCHANGED <<registry, busy, ospec>>

\* a relay that looks its worker up in self.staff at each exchange
ChannelCurrent(o) == IF Has(staff, sta[o]) THEN Get(staff, sta[o]) ELSE found[o]

\* lines 70, 72: the Request the relay of o exchanges with is the local found
Channel(o) == found[o]

\* line 70 completes
ForwardDone(o) ==
    /\ pc[o] = "send"
    /\ log' = [log EXCEPT ![o] =
                 Append(@, Call("found.send", Channel(o).id, sta[o], full_order[o]))]
    /\ pc' = [pc EXCEPT ![o] = "result"]
    /\ UNCHANGED <<registry, busy, locals, err>>

\* line 72 returns r
ResultDone(o, r) ==
    /\ pc[o] = "result"
    /\ result' = [result EXCEPT ![o] = r]
    /\ log' = [log EXCEPT ![o] =
                 Append(@, Call("found.receive", Channel(o).id, sta[o], r))]
    /\ pc' = [pc EXCEPT ![o] = "reply"]
    /\ UNCHANGED <<registry, busy, ospec, sta, found, full_order, err>>

\* line 73 completes, then line 75, then the coroutine returns
ReplyDone(o) ==
    /\ pc[o] = "reply"
    /\ log' = [log EXCEPT ![o] = Append(@, Call("request.send", 0, "", result[o]))]
    /\ IF sta[o] \in busy
       THEN /\ busy' = Release(busy, sta[o])
            /\ pc' = [pc EXCEPT ![o] = "done"]
            /\ Return(o)
            /\ UNCHANGED err
       ELSE Fail(o, "KeyError") /\ UNCHANGED busy
    /\ UNCHANGED <<registry, ospec>>

\* a relay whose failure clears the busy mark of sta (try / finally)
RelayFailReleasing(o) ==
    /\ pc[o] \in {"receive", "send", "result", "reply"}
    /\ Fail(o, "ChannelError")
    /\ busy' = busy \ {sta[o]}
    /\ UNCHANGED <<registry, ospec, log>>

\* the awaited channel operation of lines 69, 70, 72 or 73 raises; nothing
\* catches it, so line 75 is not reached
RelayFail(o) ==
    /\ pc[o] \in {"receive", "send", "result", "reply"}
    /\ Fail(o, "ChannelError")
    /\ UNCHANGED <<registry, busy, ospec, log>>

\* ------------------------------------------------------------------ Next
Next ==
    \/ \E id \in Workers, caps \in SUBSET Caps : OnDuty(id, caps)
    \/ \E id \in Workers : OffDuty(id)
    \/ \E o \in Orders, spe \in Caps \cup {Missing} : OrderArrive(o, spe)
    \/ \E o \in Orders, p \in Payloads : PullDone(o, p)
    \/ \E o \in Orders : ForwardDone(o)
    \/ \E o \in Orders, r \in Results : ResultDone(o, r)
    \/ \E o \in Orders : ReplyDone(o)
    \/ \E o \in Orders : RelayFail(o)

Spec == Init /\ [][Next]_vars

\* ------------------------------------------ staff first, orders in turn
\* The scenario of src/tests.py: all staff events come before the first
\* order, each order ends before the next arrives, no channel raises.
NoOrderYet    == \A o \in Orders : pc[o] = "new"
NoOrderActive == \A o \in Orders : pc[o] \in {"new", "done", "failed"}

SeqOnDuty(id, caps) == NoOrderYet /\ StaffOnDuty(id, caps, MaxSeqOnduty)
SeqOffDuty(id)      == NoOrderYet /\ OffDuty(id)
SeqOrder(o, spe)    == NoOrderActive /\ OrderArrive(o, spe)

NextSeq ==
    \/ \E id \in Workers, caps \in SUBSET Caps : SeqOnDuty(id, caps)
    \/ \E id \in Workers : SeqOffDuty(id)
    \/ \E o \in Orders, spe \in Caps \cup {Missing} : SeqOrder(o, spe)
    \/ \E o \in Orders, p \in Payloads : PullDone(o, p)
    \/ \E o \in Orders : ForwardDone(o)
    \/ \E o \in Orders, r \in Results : ResultDone(o, r)
    \/ \E o \in Orders : ReplyDone(o)

SpecSeq == Init /\ [][NextSeq]_vars

\* ------------------------------------------------------------ vocabulary
RelayPcs == {"receive", "send", "result", "reply"}

\* the orders between selection and release that selected a worker
Holding == {o \in Orders : pc[o] \in RelayPcs /\ found[o] # NoneReq}

\* the step in which the event of order o is handled up to its first await
Arrives(o) == pc[o] = "new" /\ pc'[o] # "new"

Registered == KeySet(staff)
Idle       == Registered \ busy

\* the registered workers whose latest staff.onduty event lists c
Advertisers(c) == {w \in Registered : c \in Get(staff, w).speciality}

\* the orders that worker w was asked for a result
Served(w) ==
    {o \in Orders : \E i \in 1..Len(log[o]) :
        log[o][i].op = "found.receive" /\ log[o][i].who = w}

TypeOK ==
    /\ busy \subseteq Workers
    /\ nreq \in 0..MaxSeqOnduty
    /\ \A o \in Orders : pc[o] \in {"new", "done", "failed"} \cup RelayPcs

\* ================================================================ claims

\* C1: no two orders are between selection and release with the same worker
\* id at the same time, under every interleaving of events.
C1_MutualExclusion ==
    \A o1, o2 \in Holding : o1 # o2 => sta[o1] # sta[o2]

\* two orders hold workers at once, the later one having passed over the
\* busy first key of self.staff
C1_Witness ==
    \E o1, o2 \in Holding :
        /\ o1 < o2
        /\ Len(staff) = 2
        /\ staff[1].key = sta[o1]
        /\ staff[2].key = sta[o2]

\* C2: when a relay step of an order fails, the selected worker's id is out
\* of the busy set as the failure surfaces.
C2_ReleaseOnFailure ==
    [][\A o \in Orders :
         (o \in Holding /\ pc'[o] = "failed") => sta[o] \notin busy']_vars

\* C3: an order arriving while no worker is registered ends in an explicit
\* NoWorkerAvailable outcome.
C3_NoWorkerRegistered ==
    [][\A o \in Orders :
         (Arrives(o) /\ staff = <<>>)
            => (pc'[o] = "failed" /\ err'[o] = "NoWorkerAvailable")]_vars

\* C4: an order arriving while every registered worker is busy is signalled
\* NoWorkerAvailable at once, without a pull of the requester's payload.
C4_AllWorkersBusy ==
    [][\A o \in Orders :
         (Arrives(o) /\ staff # <<>> /\ Idle = {})
            => (pc'[o] = "failed" /\ err'[o] = "NoWorkerAvailable")]_vars

\* C5: every id in any set of the speciality index is a key of the registry.
C5_IndexWithinRegistry ==
    \A c \in DOMAIN special : special[c] \subseteq Registered

\* a worker has been taken out of the index by staff.offduty, another is on duty
C5_Witness ==
    /\ staff # <<>>
    /\ \E c \in DOMAIN special : special[c] = {}

\* C6: an id is in the index set of c if and only if it is registered and
\* the list of its latest staff.onduty event contains c.
C6_IndexIsAdvertised ==
    \A c \in Caps, w \in Workers :
        (c \in DOMAIN special /\ w \in special[c]) <=> (w \in Advertisers(c))

\* C7: an order whose channel operations all succeed pulls P from the
\* requester, sends P to the selected worker, receives R from that worker and
\* sends R to the requester, once each and in this order, and its worker then
\* is out of the busy set.
C7_RoundTrip ==
    [][\A o \in Orders :
         (pc[o] = "reply" /\ pc'[o] # "reply" /\ err'[o] # "ChannelError")
            => /\ pc'[o] = "done"
               /\ found[o] # NoneReq
               /\ sta[o] \notin busy'
               /\ \E p \in Payloads, r \in Results :
                    log'[o] = << Call("request.receive", 0, "", p),
                                 Call("found.send", found[o].id, sta[o], p),
                                 Call("found.receive", found[o].id, sta[o], r),
                                 Call("request.send", 0, "", r) >>]_vars

\* an order has completed its relay
C7_Witness ==
    \E o \in Orders : pc[o] = "done" /\ Len(log[o]) = 4

\* C8: when exactly one registered worker advertises c and it is idle, an
\* order requesting c is dispatched to it.
C8_SoleAdvertiser ==
    [][\A o \in Orders, w \in Workers :
         (Arrives(o) /\ ospec'[o] \in Caps /\ Advertisers(ospec'[o]) = {w} /\ w \in Idle)
            => (pc'[o] = "receive" /\ sta'[o] = w /\ found'[o] = Get(staff, w))]_vars

\* C9: an order requesting a capability that no registered worker advertises
\* is dispatched to a registered worker that is not busy, when there is one.
C9_Fallback ==
    [][\A o \in Orders :
         (Arrives(o) /\ ospec'[o] \in Caps /\ Advertisers(ospec'[o]) = {} /\ Idle # {})
            => /\ pc'[o] = "receive"
               /\ sta'[o] \in Idle
               /\ found'[o] = Get(staff, sta'[o])
               /\ busy' = busy \cup {sta'[o]}]_vars

\* an order holds a worker although all advertisers of its capability have
\* gone off duty
C9_Witness ==
    \E o \in Holding :
        /\ ospec[o] \in DOMAIN special
        /\ special[ospec[o]] = {}
        /\ sta[o] \in Registered

\* C10: N idle workers and M orders without capability preference, one after
\* another, M a multiple of N: every worker receives M/N orders.
NoPreference(o) ==
    \/ ospec[o] = Missing
    \/ ospec[o] \notin DOMAIN special
    \/ special[ospec[o]] = {}

C10_EvenDistribution ==
    ( /\ \A o \in Orders : pc[o] = "done" /\ NoPreference(o)
      /\ staff # <<>>
      /\ MaxOrders % Len(staff) = 0 )
    => \A w \in Registered : Cardinality(Served(w)) = MaxOrders \div Len(staff)

\* C11: staff.onduty stores the event's Request under its id and puts the id
\* in the set of each of its capabilities; staff.offduty of a registered id
\* takes it out of the registry and of every set; once all workers are off
\* duty the registry is empty and no set contains an id.
C11_RegisterDeregister ==
    [][ /\ \A id \in Workers, caps \in SUBSET Caps :
             OnDuty(id, caps)
                => /\ Has(staff', id)
                   /\ Get(staff', id) = Request(nreq', caps)
                   /\ \A c \in caps : c \in DOMAIN special' /\ id \in special'[c]
        /\ \A id \in Registered :
             OffDuty(id)
                => /\ ~Has(staff', id)
                   /\ \A c \in DOMAIN special' : id \notin special'[c]
        /\ staff' = <<>> => \A c \in DOMAIN special' : special'[c] = {}
      ]_vars

\* every worker has gone off duty again, one of them had a capability
C11_Witness ==
    /\ nreq = MaxOnduty
    /\ staff = <<>>
    /\ \E c \in DOMAIN special : special[c] = {}

\* C12: a staff.onduty or staff.offduty event completes no channel operation
\* and leaves the busy set as it was.
C12_WorkerEventFrame ==
    [][ (registry' # registry) => (log' = log /\ busy' = busy) ]_vars

\* a worker has gone off duty while its order was in relay: the order's
\* calls and busy mark are still there
C12_Witness ==
    \E o \in Holding :
        /\ sta[o] \notin Registered
        /\ sta[o] \in busy
        /\ log[o] # <<>>

\* C13: staff.offduty for an id that is not registered raises the lookup
\* failure and leaves registry, index and busy set as they were.
C13_UnknownWorker ==
    \A id \in Workers \ Registered :
        ~ ENABLED ( /\ OffDuty(id)
                    /\ ~ (lastError' = "KeyError" /\ UNCHANGED <<staff, special, busy>>) )

\* the failure has been raised in a state with a registered worker, a
\* non-empty capability set and a busy mark
C13_Witness ==
    /\ lastError = "KeyError"
    /\ Registered # Workers
    /\ busy # {}
    /\ \E c \in DOMAIN special : special[c] # {}

\* C14: an order for c while every worker in the set of c is busy and some
\* registered worker is idle goes to an idle worker; that worker's id is the
\* one marked busy, and the one released when the relay completes.
C14_BusyCandidates ==
    [][\A o \in Orders :
         /\ ( /\ Arrives(o)
              /\ ospec'[o] \in DOMAIN special
              /\ special[ospec'[o]] # {}
              /\ special[ospec'[o]] \subseteq busy
              /\ Idle # {} )
               => /\ pc'[o] = "receive"
                  /\ sta'[o] \in Idle
                  /\ found'[o] = Get(staff, sta'[o])
                  /\ busy' = busy \cup {sta'[o]}
         /\ (o \in Holding /\ pc'[o] = "done")
               => (sta[o] \in busy /\ busy' = busy \ {sta[o]})
      ]_vars

\* an order holds a worker outside the set of its capability, whose members
\* are all busy
C14_Witness ==
    \E o \in Holding :
        /\ ospec[o] \in DOMAIN special
        /\ special[ospec[o]] # {}
        /\ special[ospec[o]] \subseteq busy
        /\ sta[o] \notin special[ospec[o]]
        /\ sta[o] \in Registered

\* C15: the id of the worker an order selected is in the busy set until the
\* order's relay has finished, and the removal at the end never fails: the
\* only KeyError of an order is that of a scope without speciality (line 54).
C15_BusyWhileHeld ==
    /\ \A o \in Holding : sta[o] \in busy
    /\ \A o \in Orders : err[o] = "KeyError" => ospec[o] = Missing

\* an order is about to release a worker that has gone off duty, beside a
\* finished order
C15_Witness ==
    \E o \in Holding, q \in Orders :
        /\ pc[o] = "reply"
        /\ sta[o] \notin Registered
        /\ pc[q] = "done"

\* C16: while an order is suspended at one of its relay points, no other
\* event waits for it: the next order can arrive, every other order in relay
\* can take its next step, and workers can go on and off duty.
C16_NoBlocking ==
    \A o1 \in Holding :
        /\ \A o2 \in Orders \ {o1} :
              /\ (pc[o2] = "new" /\ \A q \in Orders : q < o2 => pc[q] # "new")
                    => \A spe \in Caps : ENABLED OrderArrive(o2, spe)
              /\ pc[o2] = "receive" => \A p \in Payloads : ENABLED PullDone(o2, p)
              /\ pc[o2] = "send"    => ENABLED ForwardDone(o2)
              /\ pc[o2] = "result"  => \A r \in Results : ENABLED ResultDone(o2, r)
              /\ pc[o2] = "reply"   => ENABLED ReplyDone(o2)
        /\ \A id \in Workers :
              /\ ENABLED OffDuty(id)
              /\ nreq < MaxOnduty => \A caps \in SUBSET Caps : ENABLED OnDuty(id, caps)

\* a later order has completed its relay with another worker, which then went
\* off duty, while the first order still waits for its payload
C16_Witness ==
    \E o1 \in Holding, o2 \in Orders :
        /\ o1 < o2
        /\ pc[o1] = "receive"
        /\ log[o1] = <<>>
        /\ pc[o2] = "done"
        /\ log[o2][2].who # sta[o1]
        /\ log[o2][2].who \notin Registered

\* the key of self.staff that comes first among the ids in S
FirstIn(S) ==
    CHOOSE w \in S : \A v \in S : IndexOf(staff, w, 1) <= IndexOf(staff, v, 1)

\* the ids in the index set of capability c
Candidates(c) == IF c \in DOMAIN special THEN special[c] ELSE {}

\* C17: selection takes the earliest registered idle worker among those in
\* the set of the requested capability, else the earliest registered idle
\* worker overall.
C17_RegistrationOrder ==
    [][\A o \in Orders :
         (Arrives(o) /\ ospec'[o] \in Caps /\ Idle # {})
            => sta'[o] = FirstIn(IF Candidates(ospec'[o]) \cap Idle # {}
                                 THEN Candidates(ospec'[o]) \cap Idle
                                 ELSE Idle)]_vars

\* C18: staff.onduty for a registered id raises nothing and replaces the
\* stored Request in place, busy or not; a busy id is not selected; an order
\* in relay keeps its own Request and exchanges with it alone.
C18_ReRegistration ==
    [][ /\ \A id \in Registered, caps \in SUBSET Caps :
             OnDuty(id, caps)
                => /\ lastError' = ""
                   /\ Get(staff', id) = Request(nreq', caps)
                   /\ Keys(staff') = Keys(staff)
                   /\ UNCHANGED <<busy, pc, sta, found>>
        /\ \A o \in Orders :
             (Arrives(o) /\ found'[o] # NoneReq) => sta'[o] \notin busy
        /\ \A o \in Holding :
             /\ pc'[o] \in RelayPcs => (found'[o] = found[o] /\ sta'[o] = sta[o])
             /\ log'[o] # log[o]
                   => log'[o][Len(log'[o])].on \in {0, found[o].id}
      ]_vars

\* an order has exchanged with the Request it selected after its worker
\* registered again with another list
C18_Witness ==
    \E o \in Holding :
        /\ sta[o] \in Registered
        /\ Get(staff, sta[o]).id # found[o].id
        /\ \E c \in DOMAIN special :
              sta[o] \in special[c] /\ c \notin Get(staff, sta[o]).speciality
        /\ Len(log[o]) >= 2
        /\ log[o][2].on = found[o].id

\* C19: staff.offduty for a busy worker is accepted: the id leaves the
\* registry and every capability set and stays in the busy set; its order
\* goes on with the Request it selected and releases the id at the end.
C19_OffDutyWhileBusy ==
    [][ /\ \A id \in Registered \cap busy :
             OffDuty(id)
                => /\ lastError' = ""
                   /\ id \notin Registered'
                   /\ \A c \in DOMAIN special' : id \notin special'[c]
                   /\ id \in busy'
                   /\ UNCHANGED <<pc, sta, found, log>>
        /\ \A o \in Holding :
             sta[o] \notin Registered
                => /\ log'[o] # log[o]
                      => log'[o][Len(log'[o])].on \in {0, found[o].id}
                   /\ (pc[o] = "reply" /\ pc'[o] # "reply" /\ err'[o] # "ChannelError")
                      => (pc'[o] = "done" /\ sta[o] \in busy /\ busy' = busy \ {sta[o]})
      ]_vars

\* the order of a worker that went off duty has received the worker's
\* result and is about to reply and release
C19_Witness ==
    \E o \in Holding :
        /\ sta[o] \notin Registered
        /\ \A c \in DOMAIN special : sta[o] \notin special[c]
        /\ sta[o] \in busy
        /\ pc[o] = "reply"
        /\ Len(log[o]) = 3

\* C20: an order that finds no idle worker changes neither the registry nor
\* the capability sets nor the busy set, when it arrives and when it ends.
C20_NoIdleWorkerFrame ==
    [][\A o \in Orders :
         /\ (Arrives(o) /\ ospec'[o] \in Caps /\ Idle = {})
               => (found'[o] = NoneReq /\ UNCHANGED <<staff, special, busy>>)
         /\ (pc[o] \in RelayPcs /\ found[o] = NoneReq /\ pc'[o] # pc[o])
               => (pc'[o] = "failed" /\ UNCHANGED <<staff, special, busy>>)
      ]_vars

\* an order that found every worker busy has ended, the other order still
\* holds its worker
C20_Witness ==
    \E o \in Orders, q \in Holding :
        /\ pc[o] = "failed"
        /\ err[o] \in {"AttributeError", "ChannelError"}
        /\ log[q] = <<>>
        /\ q < o
        /\ busy = {sta[q]}
        /\ Registered = {sta[q]}

====
